---- MODULE Spec2Model ----
(***************************************************************************)
(* Model of the patrol-robot dashboard client.                             *)
(*   static/js/main.js : status polling, command buttons, logout           *)
(*   static/js/auth.js : login form handler                                *)
(* One browser tab is modelled.  `page` is the document that is loaded,    *)
(* `nav` the navigation started by an assignment to window.location.href   *)
(* that has not replaced the document yet (handlers keep running until it  *)
(* does).  localStorage survives navigations, everything else is per page. *)
(***************************************************************************)
EXTENDS Integers, Sequences, FiniteSets

(* ---------------------------------------------------------------- bounds *)
\* Total number of HTTP requests the tab issues in one behaviour.
MaxSent == 3

(* ------------------------------------------------------------ JS values *)
Undefined == [t |-> "undefined", v |-> 0]
Num(n) == [t |-> "number", v |-> n]
IsNaN(x) == x.t # "number"

Digits == <<"0", "1", "2", "3", "4", "5", "6", "7", "8", "9">>

RECURSIVE NatToString(_)
NatToString(n) ==
  IF n < 10 THEN Digits[n + 1]
  ELSE NatToString(n \div 10) \o Digits[(n % 10) + 1]

\* ToString of a JS value, as used by innerText = x and by `${x}`.
ToString(x) ==
  IF x.t = "undefined" THEN "undefined"
  ELSE IF x.v < 0 THEN "-" \o NatToString(0 - x.v)
  ELSE NatToString(x.v)

(* --------------------------------------------------------- localStorage *)
Absent == "<absent>"                 \* no "token" key in localStorage
Tokens == {"T1", "T2"}               \* access tokens the server hands out

\* localStorage.getItem("token") inside a template literal: null -> "null".
getItem(tok) == IF tok = Absent THEN "null" ELSE tok

Bearer(tok) == "Bearer " \o getItem(tok)

(* ------------------------------------------------------------- requests *)
NoAuth == "<none>"                   \* request without Authorization header
Forms == {"username=ops&password=secret"}   \* what the user typed, form-encoded
StatusRequest(tok) ==
  [method |-> "GET", path |-> "/robot/status", auth |-> Bearer(tok), body |-> ""]
\* Mutant of StartRequest: the start button posts to the return path.
StartRequestWrongPath(tok) ==
  [method |-> "POST", path |-> "/robot/return", auth |-> Bearer(tok), body |-> ""]
StartRequest(tok) ==
  [method |-> "POST", path |-> "/robot/start", auth |-> Bearer(tok), body |-> ""]
ReturnRequest(tok) ==
  [method |-> "POST", path |-> "/robot/return", auth |-> Bearer(tok), body |-> ""]
LoginRequest(form) ==
  [method |-> "POST", path |-> "/login", auth |-> NoAuth, body |-> form]

(* ------------------------------------------------------------ responses *)
NoBody == [kind |-> "none", battery |-> Undefined, lat |-> Undefined,
           lon |-> Undefined]
NotJsonBody == [kind |-> "notjson", battery |-> Undefined, lat |-> Undefined,
                lon |-> Undefined]
\* A JSON object without the status fields, e.g. {"detail": "..."}.
ErrorBody == [kind |-> "object", battery |-> Undefined, lat |-> Undefined,
              lon |-> Undefined]
\* The status snapshots the robot reports: <<battery, lat, lon>>.
Snapshots == {<<80, 37, 127>>, <<7, 38, -122>>}
StatusBodies ==
  {[kind |-> "object", battery |-> Num(c[1]), lat |-> Num(c[2]), lon |-> Num(c[3])] :
     c \in Snapshots}

NoRes == [ok |-> FALSE, body |-> NoBody]
NetworkError == [ok |-> FALSE, body |-> [NoBody EXCEPT !.kind = "neterr"]]
\* What fetch() of /robot/status can resolve with.
StatusResponses ==
  {[ok |-> TRUE, body |-> b] : b \in StatusBodies \cup {NotJsonBody}}
    \cup {[ok |-> FALSE, body |-> b] : b \in {NotJsonBody, ErrorBody}}

\* A poll is successful when the response is 2xx and carries a status object.
Successful(r) == r.ok /\ r.body \in StatusBodies

NoLoginBody == [kind |-> "none", access_token |-> ""]
NotJsonLogin == [kind |-> "notjson", access_token |-> ""]
LoginResponses ==
  {[ok |-> TRUE, body |-> [kind |-> "object", access_token |-> t]] : t \in Tokens}
    \cup {[ok |-> TRUE, body |-> NotJsonLogin], [ok |-> FALSE, body |-> NoLoginBody]}

(* --------------------------------------------------------------- pages  *)
InitialText == ""                    \* text of an element nothing has written
\* The fixed message of auth.js line 19 (Korean for "login failed!"), in ASCII.
LoginFailed == "LOGIN FAILED!"
Null == [id |-> 0, lat |-> Undefined, lon |-> Undefined]   \* marker = null

VARIABLES
  page,        \* "login" | "main": the loaded document
  nav,         \* "none" | "main.html" | "login.html": pending navigation
  token,       \* localStorage["token"]: Absent or a string
  battery,     \* innerText of #battery
  position,    \* innerText of #position
  marker,      \* the module variable `marker` of main.js
  mapLayers,   \* the markers that are on the Leaflet map
  timer,       \* TRUE while the setInterval timer of main.js is armed
  polls,       \* loadRobotStatus invocations suspended at an await
  logins,      \* login click handlers suspended at an await
  message,     \* innerText of #message on the login page
  sent,        \* every request issued so far, in order
  completed    \* history: the polls of this page that have finished, in order

vars == <<page, nav, token, battery, position, marker, mapLayers, timer, polls,
          logins, message, sent, completed>>

display == <<battery, position, mapLayers>>

(* ---------------------------------------------------------------- Leaflet *)
\* map.removeLayer(m): no effect when m is not on the map.
removeLayer(layers, m) == layers \ {m}
\* L.marker([lat, lon]) throws "Invalid LatLng object" when either is NaN.
InvalidLatLng(lat, lon) == IsNaN(lat) \/ IsNaN(lon)
\* Mutant of NewMarker: the coordinates are passed in the wrong order.
NewMarkerSwapped(n, data) == [id |-> n, lat |-> data.lon, lon |-> data.lat]

\* The marker object made by the poll issued as request number n.
NewMarker(n, data) == [id |-> n, lat |-> data.lat, lon |-> data.lon]

(* ------------------------------------------------------------ main.js    *)
NewPoll(n) == [seq |-> n, pc |-> "fetch", res |-> NoRes]

\* Mutant of IssuePoll: a new poll replaces the ones still in flight.
IssuePollCancelling(ps, n) == {NewPoll(n)}

\* loadRobotStatus() up to its first await (lines 8-11): the token is read and
\* the request leaves; the invocation joins the suspended ones.
IssuePoll(ps, n) == ps \cup {NewPoll(n)}

\* Script start of main.js (lines 1-5, 22, 43): empty map, marker = null, the
\* interval timer is armed and loadRobotStatus() is called once.
MainScript(tok, log) ==
  /\ marker = Null
  /\ mapLayers = {}
  /\ timer = TRUE
  /\ polls = IssuePoll({}, Len(log) + 1)
  /\ sent = Append(log, StatusRequest(tok))
  /\ battery = InitialText
  /\ position = InitialText
  /\ completed = <<>>

Init ==
  /\ nav = "none"
  /\ token \in {Absent} \cup Tokens
  /\ logins = {}
  /\ message = InitialText
  /\ \/ /\ page = "main"
        /\ MainScript(token, <<>>)
     \/ /\ page = "login"
        /\ marker = Null /\ mapLayers = {} /\ timer = FALSE /\ polls = {}
        /\ sent = <<>> /\ battery = InitialText /\ position = InitialText
        /\ completed = <<>>

\* Mutant of Tick: polling stops once a poll has failed.
TickUntilFailure ==
  /\ page = "main"
  /\ timer
  /\ Len(sent) < MaxSent
  /\ \A i \in 1..Len(completed) : Successful(completed[i].res)
  /\ sent' = Append(sent, StatusRequest(token))
  /\ polls' = IssuePoll(polls, Len(sent) + 1)
  /\ UNCHANGED <<page, nav, token, battery, position, marker, mapLayers, timer,
                 logins, message, completed>>

\* Mutant of Tick: the header built for the page's first poll is reused.
TickStaleToken ==
  /\ page = "main"
  /\ timer
  /\ Len(sent) < MaxSent
  /\ LET seqs == {p.seq : p \in polls} \cup
                 {completed[i].seq : i \in 1..Len(completed)}
         first == CHOOSE n \in seqs : \A k \in seqs : n <= k
     IN sent' = Append(sent, [StatusRequest(token) EXCEPT !.auth = sent[first].auth])
  /\ polls' = IssuePoll(polls, Len(sent) + 1)
  /\ UNCHANGED <<page, nav, token, battery, position, marker, mapLayers, timer,
                 logins, message, completed>>

\* Mutant of Tick: loadRobotStatus returns early when no token is stored.
TickNeedsToken ==
  /\ page = "main"
  /\ timer
  /\ Len(sent) < MaxSent
  /\ token # Absent
  /\ sent' = Append(sent, StatusRequest(token))
  /\ polls' = IssuePoll(polls, Len(sent) + 1)
  /\ UNCHANGED <<page, nav, token, battery, position, marker, mapLayers, timer,
                 logins, message, completed>>

\* The timer fires (line 22): loadRobotStatus is called.
Tick ==
  /\ page = "main"
  /\ timer
  /\ Len(sent) < MaxSent
  /\ sent' = Append(sent, StatusRequest(token))
  /\ polls' = IssuePoll(polls, Len(sent) + 1)
  /\ UNCHANGED <<page, nav, token, battery, position, marker, mapLayers, timer,
                 logins, message, completed>>

\* `await fetch(...)` (line 9) resolves with response r, whatever its status.
FetchStatusResolve(p, r) ==
  /\ p \in polls
  /\ p.pc = "fetch"
  /\ polls' = (polls \ {p}) \cup {[p EXCEPT !.pc = "json", !.res = r]}
  /\ UNCHANGED <<page, nav, token, battery, position, marker, mapLayers, timer,
                 logins, message, sent, completed>>

\* `await fetch(...)` rejects (network error): the invocation ends with an
\* unhandled rejection; nothing else is touched.
FetchStatusReject(p) ==
  /\ p \in polls
  /\ p.pc = "fetch"
  /\ polls' = polls \ {p}
  /\ completed' = Append(completed, [seq |-> p.seq, res |-> NetworkError])
  /\ UNCHANGED <<page, nav, token, battery, position, marker, mapLayers, timer,
                 logins, message, sent>>

\* Lines 14-15.
BatteryText(data) == ToString(data.battery)
PositionText(data) == ToString(data.lat) \o ", " \o ToString(data.lon)

\* Mutant of LayersAfterRemove: the previous marker is left on the map.
LayersKeepOld(m, layers) == layers

\* Line 17: if (marker) map.removeLayer(marker).
LayersAfterRemove(m, layers) ==
  IF m # Null THEN removeLayer(layers, m) ELSE layers

\* `await res.json()` (line 12) settles and the rest of loadRobotStatus runs
\* (lines 14-18) in one turn of the event loop.
StatusJson(p) ==
  /\ p \in polls
  /\ p.pc = "json"
  /\ polls' = polls \ {p}
  /\ completed' = Append(completed, [seq |-> p.seq, res |-> p.res])
  /\ IF p.res.body.kind = "notjson"
     THEN \* res.json() rejects
          UNCHANGED <<battery, position, marker, mapLayers>>
     ELSE LET data == p.res.body
              removed == LayersAfterRemove(marker, mapLayers)
          IN /\ battery' = BatteryText(data)
             /\ position' = PositionText(data)
             /\ IF InvalidLatLng(data.lat, data.lon)
                THEN \* L.marker throws after the old marker was removed
                     /\ marker' = marker
                     /\ mapLayers' = removed
                ELSE /\ marker' = NewMarker(p.seq, data)
                     /\ mapLayers' = removed \cup {NewMarker(p.seq, data)}
  /\ UNCHANGED <<page, nav, token, timer, logins, message, sent>>

\* Lines 24-29.
startPatrol ==
  /\ page = "main"
  /\ Len(sent) < MaxSent
  /\ sent' = Append(sent, StartRequest(token))
  /\ UNCHANGED <<page, nav, token, battery, position, marker, mapLayers, timer,
                 polls, logins, message, completed>>

\* Mutant of returnBase: the command drops the status polls in flight.
returnBaseCancelsPolls ==
  /\ page = "main"
  /\ Len(sent) < MaxSent
  /\ sent' = Append(sent, ReturnRequest(token))
  /\ polls' = {}
  /\ UNCHANGED <<page, nav, token, battery, position, marker, mapLayers, timer,
                 logins, message, completed>>

\* Lines 31-36.
returnBase ==
  /\ page = "main"
  /\ Len(sent) < MaxSent
  /\ sent' = Append(sent, ReturnRequest(token))
  /\ UNCHANGED <<page, nav, token, battery, position, marker, mapLayers, timer,
                 polls, logins, message, completed>>

\* Mutant of logout: the page redirects without removing the token.
logoutKeepsToken ==
  /\ page = "main"
  /\ nav' = "login.html"
  /\ UNCHANGED <<page, token, battery, position, marker, mapLayers, timer, polls,
                 logins, message, sent, completed>>

\* Lines 38-41.
logout ==
  /\ page = "main"
  /\ token' = Absent
  /\ nav' = "login.html"
  /\ UNCHANGED <<page, battery, position, marker, mapLayers, timer, polls,
                 logins, message, sent, completed>>

(* ------------------------------------------------------------ auth.js    *)
NoLoginRes == [ok |-> FALSE, body |-> NoLoginBody]
NewLogin(n) == [seq |-> n, pc |-> "fetch", res |-> NoLoginRes]

\* Click on #loginBtn (lines 3-12): the form is read and posted.
LoginClick(form) ==
  /\ page = "login"
  /\ Len(sent) < MaxSent
  /\ sent' = Append(sent, LoginRequest(form))
  /\ logins' = logins \cup {NewLogin(Len(sent) + 1)}
  /\ UNCHANGED <<page, nav, token, battery, position, marker, mapLayers, timer,
                 polls, message, completed>>

\* Mutant of LoginFetchResolve: a rejected login also removes the stored token.
LoginFetchResolveClears(l, r) ==
  /\ l \in logins
  /\ l.pc = "fetch"
  /\ IF r.ok
     THEN /\ logins' = (logins \ {l}) \cup {[l EXCEPT !.pc = "json", !.res = r]}
          /\ UNCHANGED <<message, token>>
     ELSE /\ logins' = logins \ {l}
          /\ message' = LoginFailed
          /\ token' = Absent
  /\ UNCHANGED <<page, nav, battery, position, marker, mapLayers, timer,
                 polls, sent, completed>>

\* Mutant of LoginFetchResolve: res.ok is not looked at.
LoginFetchResolveUnchecked(l, r) ==
  /\ l \in logins
  /\ l.pc = "fetch"
  /\ logins' = (logins \ {l}) \cup {[l EXCEPT !.pc = "json", !.res = r]}
  /\ UNCHANGED <<page, nav, token, battery, position, marker, mapLayers, timer,
                 polls, message, sent, completed>>

\* `await fetch(...)` (line 9) resolves with r: lines 14-15 or 18-20.
LoginFetchResolve(l, r) ==
  /\ l \in logins
  /\ l.pc = "fetch"
  /\ IF r.ok
     THEN /\ logins' = (logins \ {l}) \cup {[l EXCEPT !.pc = "json", !.res = r]}
          /\ UNCHANGED message
     ELSE /\ logins' = logins \ {l}
          /\ message' = LoginFailed
  /\ UNCHANGED <<page, nav, token, battery, position, marker, mapLayers, timer,
                 polls, sent, completed>>

\* `await fetch(...)` rejects: unhandled rejection, nothing is displayed.
LoginFetchReject(l) ==
  /\ l \in logins
  /\ l.pc = "fetch"
  /\ logins' = logins \ {l}
  /\ UNCHANGED <<page, nav, token, battery, position, marker, mapLayers, timer,
                 polls, message, sent, completed>>

\* Mutant of LoginJson: the handler navigates without storing the token.
LoginJsonNoStore(l) ==
  /\ l \in logins
  /\ l.pc = "json"
  /\ logins' = logins \ {l}
  /\ IF l.res.body.kind = "notjson"
     THEN UNCHANGED nav
     ELSE nav' = "main.html"
  /\ UNCHANGED <<page, token, battery, position, marker, mapLayers, timer, polls,
                 message, sent, completed>>

\* `await res.json()` (line 15) settles: lines 16-17, or a rejection.
LoginJson(l) ==
  /\ l \in logins
  /\ l.pc = "json"
  /\ logins' = logins \ {l}
  /\ IF l.res.body.kind = "notjson"
     THEN UNCHANGED <<token, nav>>
     ELSE /\ token' = l.res.body.access_token
          /\ nav' = "main.html"
  /\ UNCHANGED <<page, battery, position, marker, mapLayers, timer, polls,
                 message, sent, completed>>

(* ----------------------------------------------------------- navigation  *)
\* The pending navigation to main.html replaces the document: every suspended
\* handler of the old page is gone and main.js runs from the top.
LoadMain ==
  /\ nav = "main.html"
  /\ Len(sent) < MaxSent
  /\ page' = "main"
  /\ nav' = "none"
  /\ logins' = {}
  /\ message' = InitialText
  /\ marker' = Null
  /\ mapLayers' = {}
  /\ timer' = TRUE
  /\ polls' = IssuePoll({}, Len(sent) + 1)
  /\ sent' = Append(sent, StatusRequest(token))
  /\ battery' = InitialText
  /\ position' = InitialText
  /\ completed' = <<>>
  /\ UNCHANGED token

\* The pending navigation to login.html replaces the document.
LoadLogin ==
  /\ nav = "login.html"
  /\ page' = "login"
  /\ nav' = "none"
  /\ logins' = {}
  /\ message' = InitialText
  /\ marker' = Null
  /\ mapLayers' = {}
  /\ timer' = FALSE
  /\ polls' = {}
  /\ battery' = InitialText
  /\ position' = InitialText
  /\ completed' = <<>>
  /\ UNCHANGED <<token, sent>>

Next ==
  \/ Tick
  \/ \E p \in polls : \E r \in StatusResponses : FetchStatusResolve(p, r)
  \/ \E p \in polls : FetchStatusReject(p)
  \/ \E p \in polls : StatusJson(p)
  \/ startPatrol
  \/ returnBase
  \/ logout
  \/ \E f \in Forms : LoginClick(f)
  \/ \E l \in logins : \E r \in LoginResponses : LoginFetchResolve(l, r)
  \/ \E l \in logins : LoginFetchReject(l)
  \/ \E l \in logins : LoginJson(l)
  \/ LoadMain
  \/ LoadLogin

Spec == Init /\ [][Next]_vars

(* ================================================================ claims *)
Max(S) == CHOOSE x \in S : \A y \in S : y <= x
Min(S) == CHOOSE x \in S : \A y \in S : x <= y

\* Indices of `completed` that are successful polls.
Successes == {i \in 1..Len(completed) : Successful(completed[i].res)}
Failures == {i \in 1..Len(completed) : ~Successful(completed[i].res)}

\* The texts a status object is displayed as.
ShownAs(data) ==
  /\ battery = ToString(data.battery)
  /\ position = ToString(data.lat) \o ", " \o ToString(data.lon)

\* Poll p finishes in this step without having been a successful poll.
FailedPollCompletes(p) ==
  \/ FetchStatusReject(p)
  \/ StatusJson(p) /\ ~Successful(p.res)

\* C1: a failed status poll (network error, non-JSON body or non-2xx status)
\* leaves the battery text, the position text and the markers on the map
\* exactly as they were before it.
C1_FailedPollKeepsDisplay ==
  [][\A p \in polls : FailedPollCompletes(p) => UNCHANGED display]_vars

\* C2: once a successful poll has completed on the page, the battery and
\* position texts are those of the most recently completed successful poll.
C2_DisplayIsLastSuccess ==
  Successes # {} => ShownAs(completed[Max(Successes)].res.body)

\* C3: right after a successful poll has completed, the texts are those of the
\* latest-issued poll among the successful ones completed so far: a response
\* of an earlier-issued poll does not overwrite a later-issued poll's data.
C3_NewestIssuedWins ==
  (Successes # {} /\ Max(Successes) = Len(completed)) =>
    LET newest == CHOOSE i \in Successes :
                    \A j \in Successes : completed[j].seq <= completed[i].seq
    IN ShownAs(completed[newest].res.body)

\* C4: at most one marker is on the map in every reachable state.
C4_AtMostOneMarker == Cardinality(mapLayers) <= 1

\* C4 witness: a second successful poll has replaced the marker of the first
\* while another poll was still in flight.
C4_Witness ==
  /\ Cardinality(Successes) >= 2
  /\ Cardinality(mapLayers) = 1
  /\ polls # {}

\* C5: after two consecutive successful polls exactly one marker is on the
\* map; it is the one the second poll made, at the second response's lat/lon.
C5_MarkerOfSecondPoll ==
  LET n == Len(completed) IN
  (n >= 2 /\ (n - 1) \in Successes /\ n \in Successes) =>
    /\ Cardinality(mapLayers) = 1
    /\ mapLayers = {marker}
    /\ marker.id = completed[n].seq
    /\ marker.lat = completed[n].res.body.lat
    /\ marker.lon = completed[n].res.body.lon

\* C5 witness: two consecutive successful polls with different coordinates.
C5_Witness ==
  LET n == Len(completed) IN
  /\ n >= 2 /\ (n - 1) \in Successes /\ n \in Successes
  /\ completed[n].res.body.lat # completed[n - 1].res.body.lat
  /\ mapLayers = {marker}

\* C6: after a failed status poll (rejected fetch, unparsable body or an
\* exception while the page is updated) the timer still fires and its tick
\* issues a new status request, as long as the page is loaded.
C6_TickAfterFailure ==
  (page = "main" /\ Failures # {} /\ Len(sent) < MaxSent) =>
    ENABLED (/\ Tick
             /\ Len(sent') = Len(sent) + 1
             /\ sent'[Len(sent')].path = "/robot/status"
             /\ Cardinality(polls') = Cardinality(polls) + 1)

\* C6 witness: a poll was issued after an earlier-issued poll had failed; one
\* failure left the page half updated (texts written, marker creation threw).
C6_Witness ==
  /\ \E i \in Failures : \E p \in polls : p.seq > completed[i].seq
  /\ battery = "undefined"

\* The status polls of the loaded page: suspended or finished.
PagePolls == {p.seq : p \in polls} \cup {completed[i].seq : i \in 1..Len(completed)}

\* C7: the main page issues a status request when it loads, before any tick
\* (right after the load that poll is the only one); a tick is possible
\* whether or not polls are in flight and issues one more status request;
\* issuing a poll leaves every in-flight poll in flight.
C7_PollAtLoadAndEveryTick ==
  /\ [](page = "main" =>
          /\ PagePolls # {}
          /\ \A n \in PagePolls : sent[n].path = "/robot/status"
          /\ Len(sent) < MaxSent => ENABLED Tick)
  /\ [][(page # "main" /\ page' = "main") =>
          /\ polls' = {[seq |-> Len(sent'), pc |-> "fetch", res |-> NoRes]}
          /\ sent' = Append(sent, [method |-> "GET", path |-> "/robot/status",
                                   auth |-> Bearer(token), body |-> ""])
          /\ completed' = <<>>
          /\ timer']_vars
  /\ [][Tick => /\ polls \subseteq polls'
                /\ Cardinality(polls') = Cardinality(polls) + 1
                /\ sent' = Append(sent, [method |-> "GET", path |-> "/robot/status",
                                         auth |-> Bearer(token), body |-> ""])]_vars

\* C7 witness: a tick has issued a poll while the poll of the page load and a
\* poll of an earlier tick were still in flight.
C7_Witness == page = "main" /\ Cardinality(polls) >= 3

\* C8: a click on start (return) issues exactly one POST to /robot/start
\* (/robot/return) with the token stored at that moment, and is possible
\* whatever the in-flight polls are doing; it leaves them alone.
C8_CommandPosts ==
  /\ [][/\ startPatrol =>
             /\ sent' = Append(sent, [method |-> "POST", path |-> "/robot/start",
                                      auth |-> "Bearer " \o getItem(token),
                                      body |-> ""])
             /\ polls' = polls
        /\ returnBase =>
             /\ sent' = Append(sent, [method |-> "POST", path |-> "/robot/return",
                                      auth |-> "Bearer " \o getItem(token),
                                      body |-> ""])
             /\ polls' = polls]_vars
  /\ []((page = "main" /\ Len(sent) < MaxSent) =>
          (ENABLED startPatrol /\ ENABLED returnBase))

\* C8 witness: both commands were posted with the stored token while a status
\* poll was in flight.
C8_Witness ==
  /\ token \in Tokens
  /\ polls # {}
  /\ \E i, j \in 1..Len(sent) :
       /\ sent[i].path = "/robot/start" /\ sent[i].auth = "Bearer " \o token
       /\ sent[j].path = "/robot/return" /\ sent[j].auth = "Bearer " \o token

\* C9: with no token stored a tick still sends the status request and the
\* invocation goes on to await the response; the Authorization header holds
\* none of the tokens the server hands out.
C9_PollWithoutToken ==
  /\ []((page = "main" /\ token = Absent /\ Len(sent) < MaxSent) => ENABLED Tick)
  /\ [][(Tick /\ token = Absent) =>
          /\ Len(sent') = Len(sent) + 1
          /\ sent'[Len(sent')].path = "/robot/status"
          /\ sent'[Len(sent')].auth \notin {"Bearer " \o t : t \in Tokens}
          /\ \E p \in polls' : p.seq = Len(sent') /\ p.pc = "fetch"]_vars

\* C9 witness: a tick has issued a poll with no token stored.
C9_Witness ==
  /\ token = Absent
  /\ \E p \in polls : /\ p.seq > Min(PagePolls)
                      /\ sent[p.seq].auth = "Bearer null"

\* C10: a login attempt answered with a non-2xx status displays the fixed
\* failure message, leaves the stored token as it was and starts no
\* navigation.
C10_LoginRejected ==
  [][\A l \in logins : \A r \in LoginResponses :
       (LoginFetchResolve(l, r) /\ ~r.ok) =>
          /\ message' = LoginFailed
          /\ token' = token
          /\ nav' = nav
          /\ page' = "login"]_vars

\* C10 witness: the failure message is displayed on the login page, a token of
\* an earlier session is still stored and no navigation is pending.
C10_Witness ==
  /\ page = "login"
  /\ message = LoginFailed
  /\ token \in Tokens
  /\ nav = "none"

\* C11: a login answered 200 with {access_token: T} stores exactly T, whatever
\* was stored before, and starts the navigation to the main view; a navigation
\* to the main view is pending or starts only with that token in storage.
C11_LoginStoresThenNavigates ==
  /\ [][\A l \in logins :
          (LoginJson(l) /\ l.res.ok /\ l.res.body.kind = "object") =>
             /\ token' = l.res.body.access_token
             /\ nav' = "main.html"]_vars
  /\ [][(nav' = "main.html" /\ nav # "main.html") =>
          \E l \in logins : /\ l.res.ok /\ l.res.body.kind = "object"
                            /\ token' = l.res.body.access_token]_vars
  /\ [](nav = "main.html" => token \in Tokens)
  /\ [][(page = "login" /\ page' = "main") => (token \in Tokens /\ token' = token)]_vars

\* C11 witness: the main view was loaded by a login that replaced the token of
\* an earlier session: its first poll carries another token than a request of
\* the earlier main page.
C11_Witness ==
  /\ page = "main"
  /\ token \in Tokens
  /\ \E i, j, k \in 1..Len(sent) :
       /\ i < j /\ j < k
       /\ sent[i].auth \in {"Bearer " \o t : t \in Tokens}
       /\ sent[j].path = "/login"
       /\ sent[k].path = "/robot/status"
       /\ sent[k].auth = "Bearer " \o token
       /\ sent[k].auth # sent[i].auth

\* C12: logout removes the token, so that reading it afterwards yields the
\* absent indicator, and it has done so when the redirect to the login view
\* is started and when the login view is loaded.
C12_ClearThenRetrieve ==
  /\ [][logout => (token' = Absent /\ getItem(token') = "null"
                     /\ nav' = "login.html")]_vars
  /\ [](nav = "login.html" => token = Absent)
  /\ [][(page = "main" /\ page' = "login") => token' = Absent]_vars

\* C12 witness: a token that requests had carried is gone and the redirect to
\* the login view is pending.
C12_Witness ==
  /\ page = "main"
  /\ nav = "login.html"
  /\ token = Absent
  /\ \E i \in 1..Len(sent) : sent[i].auth \in {"Bearer " \o t : t \in Tokens}

\* C13: the stored token changes only when a successful login writes the
\* access token it received or when logout removes it; polls (issued,
\* succeeded or failed), commands, failed logins and page loads leave it alone.
C13_TokenWriters ==
  [][/\ (token' # token /\ token' # Absent) =>
          \E l \in logins : /\ LoginJson(l)
                            /\ l.res.ok /\ l.res.body.kind = "object"
                            /\ token' = l.res.body.access_token
     /\ (token' # token /\ token' = Absent) => logout
     /\ (\/ Tick \/ startPatrol \/ returnBase
         \/ \E p \in polls : \/ FetchStatusReject(p) \/ StatusJson(p)
                             \/ \E r \in StatusResponses : FetchStatusResolve(p, r)
         \/ \E l \in logins : \/ LoginFetchReject(l)
                              \/ \E r \in LoginResponses : LoginFetchResolve(l, r))
        => token' = token]_vars

\* C13 witness: after a successful poll, a failed poll and a command the token
\* is still the one the page's first request carried.
C13_Witness ==
  /\ page = "main"
  /\ Successes # {}
  /\ Failures # {}
  /\ token \in Tokens
  /\ \E i \in 1..Len(sent) : sent[i].method = "POST"
  /\ \A i \in 1..Len(sent) : sent[i].auth = "Bearer " \o token

\* The command requests in a log.
Commands(log) ==
  {i \in 1..Len(log) : log[i].path \in {"/robot/start", "/robot/return"}}

\* C14: a command click sends one request and nothing else: the battery text,
\* the position text, the marker, the polls in flight and the timer are left
\* as they are; no other step ever sends a command request (nothing is queued
\* or re-sent); with commands sent, the timer still ticks and every poll in
\* flight can still settle.
C14_CommandFireAndForget ==
  /\ [][(startPatrol \/ returnBase) =>
          /\ UNCHANGED <<battery, position, marker, mapLayers, polls, timer,
                         completed>>
          /\ Len(sent') = Len(sent) + 1
          /\ Commands(sent') = Commands(sent) \cup {Len(sent')}]_vars
  /\ [][Commands(sent') # Commands(sent) => (startPatrol \/ returnBase)]_vars
  /\ []((page = "main" /\ Commands(sent) # {}) =>
          /\ Len(sent) < MaxSent => ENABLED Tick
          /\ \A p \in polls :
               /\ p.pc = "fetch" => ENABLED FetchStatusReject(p)
               /\ p.pc = "json" => ENABLED StatusJson(p))

\* C14 witness: a command was sent between two polls; the first poll's data is
\* displayed and the second poll is in flight.
C14_Witness ==
  /\ page = "main"
  /\ Successes # {}
  /\ ShownAs(completed[Max(Successes)].res.body)
  /\ Cardinality(mapLayers) = 1
  /\ \E i \in Commands(sent) :
       /\ \E p \in polls : p.seq > i
       /\ \E k \in Successes : completed[k].seq < i

\* Texts and marker all stem from the finished poll completed[i].
AllFrom(i) ==
  /\ ShownAs(completed[i].res.body)
  /\ mapLayers = {marker}
  /\ marker.id = completed[i].seq
  /\ marker.lat = completed[i].res.body.lat
  /\ marker.lon = completed[i].res.body.lon

\* C15: in every state of the main page the battery text, the position text
\* and the marker on the map come from one and the same status response (or
\* nothing has been written and no marker is on the map).
C15_DisplayFromOneResponse ==
  page = "main" =>
    \/ battery = InitialText /\ position = InitialText /\ mapLayers = {}
    \/ \E i \in 1..Len(completed) : AllFrom(i)

\* C16: every status or command request carries, as its bearer credential,
\* what is in storage at the moment it is issued; with the token removed, no
\* request that is issued carries one of the server's tokens.
C16_RequestCarriesStoredToken ==
  /\ [][(Len(sent') > Len(sent) /\ sent'[Len(sent')].path # "/login") =>
          /\ Len(sent') = Len(sent) + 1
          /\ token' = token
          /\ sent'[Len(sent')].auth =
               "Bearer " \o (IF token = Absent THEN "null" ELSE token)]_vars
  /\ [][(Len(sent') > Len(sent) /\ token = Absent) =>
          sent'[Len(sent')].auth \notin {"Bearer " \o t : t \in Tokens}]_vars

\* C16 witness: after a poll that carried a token, logout has removed the
\* token and, before the page is replaced, a tick has issued a poll carrying
\* none.
C16_Witness ==
  /\ page = "main"
  /\ nav = "login.html"
  /\ token = Absent
  /\ \E i \in 1..Len(sent) : \E p \in polls :
       /\ i < p.seq
       /\ sent[i].path = "/robot/status"
       /\ sent[i].auth \in {"Bearer " \o t : t \in Tokens}
       /\ sent[p.seq].auth = "Bearer null"

====
